---- MODULE Spec2Model ----
(***************************************************************************)
(* Scene modifiers of zndraw/modify/__init__.py run against a session      *)
(* (trajectory, step, selection, points, camera, bookmarks, geometries).   *)
(*                                                                         *)
(* Geometry is kept on the integer lattice: positions, points and cells    *)
(* are integer triples, rotations are quarter turns about a coordinate     *)
(* axis, and a run whose arithmetic would leave the lattice (a centre of   *)
(* mass that is no lattice point, a camera direction that is no coordinate *)
(* axis) is not followed.  Indices are 0-based as in the source; TLA+      *)
(* sequences are 1-based, so the frame at step k is traj[k + 1].           *)
(***************************************************************************)
EXTENDS Integers, Sequences, FiniteSets, TLC

VARIABLES vis, pre, last, log, runs, svc

vars == <<vis, pre, last, log, runs, svc>>

\* Number of modifier runs followed in one behaviour.
MaxRuns == 2

\* Number of calls of the bond and frame service followed in one behaviour.
MaxCalls == 2

-----------------------------------------------------------------------------
(* Vectors                                                                 *)

VAdd(a, b) == <<a[1] + b[1], a[2] + b[2], a[3] + b[3]>>

VSub(a, b) == <<a[1] - b[1], a[2] - b[2], a[3] - b[3]>>

VScale(k, a) == <<k * a[1], k * a[2], k * a[3]>>

VMul(a, b) == <<a[1] * b[1], a[2] * b[2], a[3] * b[3]>>

Dot(a, b) == a[1] * b[1] + a[2] * b[2] + a[3] * b[3]

Cross(a, b) ==
    <<a[2] * b[3] - a[3] * b[2], a[3] * b[1] - a[1] * b[3], a[1] * b[2] - a[2] * b[1]>>

Zero3 == <<0, 0, 0>>

Sign(x) == IF x > 0 THEN 1 ELSE IF x < 0 THEN 0 - 1 ELSE 0

\* A vector along one coordinate axis (exactly one non-zero component).
AxisAligned(a) == Cardinality({i \in 1..3 : a[i] # 0}) = 1

\* v / norm(v) for an axis-aligned v.
Unit(a) == <<Sign(a[1]), Sign(a[2]), Sign(a[3])>>

\* Elements of a sequence.
Range(s) == {s[i] : i \in 1..Len(s)}

RECURSIVE SumSeq(_)
SumSeq(s) == IF Len(s) = 0 THEN 0 ELSE Head(s) + SumSeq(Tail(s))

RECURSIVE VSum(_)
VSum(s) == IF Len(s) = 0 THEN Zero3 ELSE VAdd(Head(s), VSum(Tail(s)))

\* sorted(xs) for a list of integers.
RECURSIVE Sorted(_)
Sorted(s) ==
    IF Len(s) = 0 THEN <<>>
    ELSE LET m == CHOOSE x \in Range(s) : \A y \in Range(s) : x <= y
             k == CHOOSE i \in 1..Len(s) : s[i] = m
         IN  <<m>> \o Sorted(SubSeq(s, 1, k - 1) \o SubSeq(s, k + 1, Len(s)))

-----------------------------------------------------------------------------
(* Structures (ase.Atoms as the modifiers use it)                          *)

\* Element symbols followed by the model; "X" is the placeholder of Symbols.
Syms == {"H", "O"}

\* Atomic mass (rounded) and per-atom radius of an element.
Mass(sym) == IF sym = "H" THEN 1 ELSE 16

Radius(sym) == IF sym = "H" THEN 1 ELSE 2

Atom(sym, pos) == [sym |-> sym, pos |-> pos]

\* ase.Atoms(): no atoms, zero cell, not periodic, no extra arrays.
EmptyAtoms ==
    [atoms |-> <<>>, cell |-> Zero3, pbc |-> FALSE,
     colors |-> FALSE, radii |-> FALSE, conn |-> FALSE]

NAtoms(f) == Len(f.atoms)

\* Valid 0-based atom indices of a structure.
AtomIds(f) == 0..(NAtoms(f) - 1)

\* Atoms.copy(): cell, pbc and arrays are copied, the connectivity attribute is not.
Copy(f) == [f EXCEPT !.conn = FALSE]

\* atoms[atom_ids] for a list of valid indices: a new structure in list order.
GetItem(f, ids) ==
    [f EXCEPT !.atoms = [i \in 1..Len(ids) |-> f.atoms[ids[i] + 1]], !.conn = FALSE]

\* atoms.pop(i) / del atoms[i] for a valid index.
Pop(f, i) ==
    [f EXCEPT !.atoms = SubSeq(f.atoms, 1, i) \o SubSeq(f.atoms, i + 2, Len(f.atoms))]

\* atoms += ase.Atom(sym, pos): existing arrays are extended, none is added.
AddAtom(f, a) == [f EXCEPT !.atoms = Append(f.atoms, a)]

\* atoms.positions = ps
SetPositions(f, ps) ==
    [f EXCEPT !.atoms = [i \in 1..NAtoms(f) |-> [f.atoms[i] EXCEPT !.pos = ps[i]]]]

\* atoms.positions += d
Shift(f, d) == SetPositions(f, [i \in 1..NAtoms(f) |-> VAdd(f.atoms[i].pos, d)])

\* atoms.wrap(): positions folded into the cell along the periodic directions.
WrapCoord(x, c) == IF c > 0 THEN x % c ELSE x

WrapAtoms(f) ==
    IF ~f.pbc THEN f
    ELSE SetPositions(f, [i \in 1..NAtoms(f) |->
            [k \in 1..3 |-> WrapCoord(f.atoms[i].pos[k], f.cell[k])]])

\* Mass-weighted sums of get_center_of_mass(): sum(m_i * p_i) and sum(m_i).
MassMoment(f) ==
    VSum([i \in 1..NAtoms(f) |-> VScale(Mass(f.atoms[i].sym), f.atoms[i].pos)])

TotalMass(f) == SumSeq([i \in 1..NAtoms(f) |-> Mass(f.atoms[i].sym)])

\* The centre of mass is a lattice point.
ComOnLattice(f) ==
    /\ TotalMass(f) > 0
    /\ \A k \in 1..3 : MassMoment(f)[k] % TotalMass(f) = 0

CenterOfMass(f) == [k \in 1..3 |-> MassMoment(f)[k] \div TotalMass(f)]

\* np.diag(atoms.cell) / 2
HalfDiag(f) == [k \in 1..3 |-> f.cell[k] \div 2]

\* Image (m0, m1, m2) of the atoms in atoms.repeat(rep).
Image(f, m) == [i \in 1..NAtoms(f) |->
                  [f.atoms[i] EXCEPT !.pos = VAdd(f.atoms[i].pos, VMul(m, f.cell))]]

RECURSIVE Concat(_)
Concat(ss) == IF Len(ss) = 0 THEN <<>> ELSE Head(ss) \o Concat(Tail(ss))

\* atoms.repeat((x, y, z)): a copy tiled x*y*z times, images ordered m0, m1, m2;
\* the cell is scaled by (x, y, z).
Repeat(f, rep) ==
    LET n == rep[1] * rep[2] * rep[3]
        img(j) == <<(j - 1) \div (rep[2] * rep[3]),
                    ((j - 1) \div rep[3]) % rep[2],
                    (j - 1) % rep[3]>>
    IN  [Copy(f) EXCEPT !.atoms = Concat([j \in 1..n |-> Image(f, img(j))]),
                        !.cell = VMul(rep, f.cell)]

\* cos and sin of a multiple of 90 degrees.
Cos90(a) == LET r == a % 360 IN IF r = 0 THEN 1 ELSE IF r = 180 THEN 0 - 1 ELSE 0

Sin90(a) == LET r == a % 360 IN IF r = 90 THEN 1 ELSE IF r = 270 THEN 0 - 1 ELSE 0

\* Atoms.rotate(a, v, center) on one position, for a unit axis u and a quarter-turn
\* angle: c*p - cross(p, s*u) + dot(p, u)*(1 - c)*u + center, with p = pos - center.
RotatePos(pos, a, u, center) ==
    LET p == VSub(pos, center)
        c == Cos90(a)
        s == Sin90(a)
    IN  VAdd(VAdd(VSub(VScale(c, p), Cross(p, VScale(s, u))),
                  VScale(Dot(p, u) * (1 - c), u)),
             center)

RotateAtoms(f, a, v, center) ==
    SetPositions(f, [i \in 1..NAtoms(f) |-> RotatePos(f.atoms[i].pos, a, Unit(v), center)])

-----------------------------------------------------------------------------
(* ASEComputeBonds (zndraw/tools/data.py)                                  *)

\* Atomic number of an element.
Number(sym) == IF sym = "H" THEN 1 ELSE 8

\* Radius within which build_neighbor_list looks for partners of an atom, in
\* hundredths of the length unit: the covalent radius (natural_cutoffs) plus the
\* skin of the neighbour list.
Cutoff(sym) == (IF sym = "H" THEN 31 ELSE 66) + 30

\* Cell translations the neighbour search looks through along periodic directions.
Offsets == {<<a, b, c>> : a \in {0 - 1, 0, 1}, b \in {0 - 1, 0, 1}, c \in {0 - 1, 0, 1}}

\* Atoms i and j (1-based) of the structure are within bonding distance, directly
\* or, for a periodic structure, through an image.
Near(f, i, j) ==
    LET c == Cutoff(f.atoms[i].sym) + Cutoff(f.atoms[j].sym)
        close(d) == 10000 * Dot(d, d) < c * c
    IN  IF f.pbc
        THEN \E m \in Offsets :
                close(VSub(VAdd(f.atoms[j].pos, VMul(m, f.cell)), f.atoms[i].pos))
        ELSE close(VSub(f.atoms[j].pos, f.atoms[i].pos))

\* build_neighbor_list(atoms, self_interaction=False) and its connectivity
\* matrix: the pairs of 0-based indices of distinct atoms in reach of each other.
build_neighbor_list(f) ==
    {e \in AtomIds(f) \X AtomIds(f) : e[1] < e[2] /\ Near(f, e[1] + 1, e[2] + 1)}

\* list(G.edges): every edge once, by first node, then by second.
RECURSIVE Edges(_)
Edges(S) ==
    IF S = {} THEN <<>>
    ELSE LET e == CHOOSE x \in S :
                     \A y \in S : x[1] < y[1] \/ (x[1] = y[1] /\ x[2] <= y[2])
         IN  <<e>> \o Edges(S \ {e})

\* ASEComputeBonds.get_bonds: the bond list, and the structure as the call
\* leaves it (`atoms.pbc = False` is an assignment to the caller's structure).
get_bonds(atoms) ==
    LET a1 == [atoms EXCEPT !.pbc = FALSE]
    IN  [atoms |-> a1, bonds |-> Edges(build_neighbor_list(a1))]

\* _rgb2hex(jmol_colors[atom.number]): white for hydrogen, (1, 0.051, 0.051)
\* for oxygen, each channel int(255 * c) in two hex digits.
rgb2hex(sym) == IF sym = "H" THEN "#ffffff" ELSE "#ff0d0d"

\* 0.25 * (2 - exp(-0.2 * atom.number)), in units of 10^-5.
ParticleRadius(sym) == IF Number(sym) = 1 THEN 29532 ELSE 44953

\* shared.config.get_atoms(step): the structure the trajectory holds at step.
get_atoms(v, step) == v.traj[step + 1]

\* ASEComputeBonds.get_frame: the render record, and the fetched structure as the
\* call leaves it.
get_frame(v, step) ==
    LET atoms == get_atoms(v, step)
        particles == [idx \in 1..NAtoms(atoms) |->
                        [id |-> idx - 1,
                         x |-> atoms.atoms[idx].pos[1],
                         y |-> atoms.atoms[idx].pos[2],
                         z |-> atoms.atoms[idx].pos[3],
                         color |-> rgb2hex(atoms.atoms[idx].sym),
                         radius |-> ParticleRadius(atoms.atoms[idx].sym)]]
        r == get_bonds(atoms)
    IN  [atoms |-> r.atoms, particles |-> particles, bonds |-> r.bonds]

-----------------------------------------------------------------------------
(* The session (ZnDraw) as the modifiers use it                            *)

\* vis.step names a frame of the trajectory.
HasCurrent(v) == v.step >= 0 /\ v.step < Len(v.traj)

\* vis.atoms: a working copy of the frame at the current step.
Atoms(v) == v.traj[v.step + 1]

\* del vis[k:] (a slice: a start beyond the end deletes nothing).
DelFrom(v, k) ==
    IF k >= Len(v.traj) THEN v
    ELSE [v EXCEPT !.traj = SubSeq(v.traj, 1, k), !.org = SubSeq(v.org, 1, k)]

\* del vis[idx] for an index in range: the later frames move down by one.
DelItem(v, idx) ==
    [v EXCEPT !.traj = SubSeq(v.traj, 1, idx) \o SubSeq(v.traj, idx + 2, Len(v.traj)),
              !.org = SubSeq(v.org, 1, idx) \o SubSeq(v.org, idx + 2, Len(v.org))]

\* vis.append(atoms): a snapshot of the structure becomes the last frame.
AppendFrame(v, f) ==
    [v EXCEPT !.traj = Append(v.traj, f), !.org = Append(v.org, "new")]

\* vis[idx] = atoms for an index in range.
SetItem(v, idx, f) ==
    [v EXCEPT !.traj[idx + 1] = f, !.org[idx + 1] = "new"]

\* vis.segments: the points of the drawn path.
Segments(v) == v.points

Label(text, arg) == [text |-> text, arg |-> arg]

\* The assignment without the union: the new entry replaces the bookmarks.
Merge_Replace(b, k, label) == [i \in {k} |-> label]

\* bookmarks | {k: label}
Merge(b, k, label) ==
    [i \in (DOMAIN b) \cup {k} |-> IF i = k THEN label ELSE b[i]]

\* The session as a run finds it: every frame is marked as lying up to the
\* current step ("past") or beyond it ("future"); frames a run writes are "new".
Begin(v) ==
    [v EXCEPT !.org = [i \in 1..Len(v.traj) |->
                          IF i <= v.step + 1 THEN "past" ELSE "future"]]

\* The session without the marks.
Sess(v) ==
    [traj |-> v.traj, step |-> v.step, selection |-> v.selection,
     points |-> v.points, camera |-> v.camera, bookmarks |-> v.bookmarks,
     geometries |-> v.geometries]

\* Every selected index names an atom of the structure.
SelValid(sel, f) == \A i \in 1..Len(sel) : sel[i] \in AtomIds(f)

\* Outcome of a run: the session it leaves, how it ended, what it logged.
Ok(v, lg) == [v |-> v, out |-> "ok", log |-> lg, calls |-> <<>>]

Raise(v, exc, lg) == [v |-> v, out |-> exc, log |-> lg, calls |-> <<>>]

Msg(text, arg) == [msg |-> text, arg |-> arg]

\* Truncate without the deletion: the frames beyond the step are kept.
Truncate_Keep(v) == v

\* `if len(vis) > vis.step + 1: del vis[vis.step + 1 :]`
Truncate(v) == IF Len(v.traj) > v.step + 1 THEN DelFrom(v, v.step + 1) ELSE v

-----------------------------------------------------------------------------
(* UpdateScene.apply_selection                                             *)

apply_selection(atom_ids, atoms) ==
    LET remaining_ids == SelectSeq([i \in 1..NAtoms(atoms) |-> i - 1],
                                   LAMBDA x : x \notin Range(atom_ids))
    IN  [selected |-> GetItem(atoms, atom_ids),
         remaining |-> IF Len(remaining_ids) > 0 THEN GetItem(atoms, remaining_ids)
                       ELSE EmptyAtoms]

-----------------------------------------------------------------------------
(* Connect                                                                 *)

\* Every selected atom sees the camera along a coordinate axis.
ConnectOnLattice(v) ==
    (HasCurrent(v) /\ SelValid(v.selection, Atoms(v))) =>
        \A i \in 1..Len(v.selection) :
            AxisAligned(VSub(v.camera.position, Atoms(v).atoms[v.selection[i] + 1].pos))

ConnectRun(v) ==
    IF ~HasCurrent(v) THEN Raise(v, "IndexError", <<>>)
    ELSE LET atoms == Atoms(v)
             atom_ids == v.selection
             new_point(i) ==
                 LET a == atoms.atoms[atom_ids[i] + 1]
                     direction == Unit(VSub(v.camera.position, a.pos))
                 IN  VAdd(a.pos, VScale(Radius(a.sym), direction))
         IN  IF ~SelValid(atom_ids, atoms) THEN Raise(v, "IndexError", <<>>)
             ELSE IF ~atoms.radii THEN Raise(v, "KeyError", <<>>)
             ELSE Ok([v EXCEPT !.points = [i \in 1..Len(atom_ids) |-> new_point(i)],
                               !.selection = <<>>], <<>>)

-----------------------------------------------------------------------------
(* Rotate                                                                  *)

\* atoms.positions[atom_ids] = selected.positions
SetSelected(atoms, atom_ids, selected) ==
    SetPositions(atoms, [i \in 1..NAtoms(atoms) |->
        IF i - 1 \in Range(atom_ids)
        THEN selected.atoms[CHOOSE j \in 1..Len(atom_ids) : atom_ids[j] = i - 1].pos
        ELSE atoms.atoms[i].pos])

\* The loop of Rotate.run: n more increments.
RECURSIVE RotateLoop(_, _, _, _, _, _, _)
RotateLoop(v, atoms, selected, atom_ids, angle, points, n) ==
    IF n = 0 THEN v
    ELSE LET sel2 == RotateAtoms(selected, angle, VSub(points[2], points[1]), points[1])
             atoms2 == SetSelected(atoms, atom_ids, sel2)
         IN  RotateLoop(AppendFrame(v, atoms2), atoms2, sel2, atom_ids, angle, points, n - 1)

RotateRun(v, p) ==
    LET v1 == Truncate(v)
        points == v1.points
        atom_ids == v1.selection
    IN  IF ~HasCurrent(v1) THEN Raise(v1, "IndexError", <<>>)
        ELSE IF Len(points) # 2 THEN Raise(v1, "ValueError", <<>>)
        ELSE LET atoms == Atoms(v1)
                 angle == (IF p.direction = "left" THEN p.angle ELSE 0 - p.angle) \div p.steps
             IN  IF ~SelValid(atom_ids, atoms) THEN Raise(v1, "IndexError", <<>>)
                 \* Atoms.rotate refuses an axis of norm 0
                 ELSE IF VSub(points[2], points[1]) = Zero3
                      THEN Raise(v1, "ZeroDivisionError", <<>>)
                 ELSE Ok(RotateLoop(v1, atoms, apply_selection(atom_ids, atoms).selected,
                                    atom_ids, angle, points, p.steps), <<>>)

-----------------------------------------------------------------------------
(* Delete                                                                  *)

\* The removal loop without the index shift: atoms.pop(atom_id).
RECURSIVE PopLoop_NoShift(_, _, _)
PopLoop_NoShift(atoms, ids, idx) ==
    IF idx >= Len(ids) THEN [atoms |-> atoms, out |-> "ok"]
    ELSE LET i == ids[idx + 1]
         IN  IF i \notin AtomIds(atoms) THEN [atoms |-> atoms, out |-> "IndexError"]
             ELSE PopLoop_NoShift(Pop(atoms, i), ids, idx + 1)

\* `for idx, atom_id in enumerate(sorted(atom_ids)): atoms.pop(atom_id - idx)`,
\* from position idx of the sorted list on; pop raises IndexError out of range.
RECURSIVE PopLoop(_, _, _)
PopLoop(atoms, ids, idx) ==
    IF idx >= Len(ids) THEN [atoms |-> atoms, out |-> "ok"]
    ELSE LET i == ids[idx + 1] - idx
         IN  IF i \notin AtomIds(atoms) THEN [atoms |-> atoms, out |-> "IndexError"]
             ELSE PopLoop(Pop(atoms, i), ids, idx + 1)

DeleteRun(v) ==
    IF ~HasCurrent(v) THEN Raise(v, "IndexError", <<>>)
    ELSE LET atom_ids == v.selection
             atoms == Atoms(v)
             v1 == Truncate(v)
             lg == <<Msg("Deleting atoms", atom_ids)>>
             done(v2, a) == Ok([AppendFrame(v2, a) EXCEPT !.selection = <<>>,
                                                          !.step = v2.step + 1], lg)
         IN  IF Len(atom_ids) = NAtoms(atoms)
             THEN done(AppendFrame(v1, EmptyAtoms), atoms)
             ELSE LET r == PopLoop(atoms, Sorted(atom_ids), 0)
                  IN  IF r.out # "ok" THEN Raise(v1, r.out, lg)
                      ELSE done(v1, [r.atoms EXCEPT !.conn = FALSE])

-----------------------------------------------------------------------------
(* Translate                                                               *)

\* `positions[selection] += vector` with selection = np.array(vis.selection):
\* the array of an empty list has a float dtype, which numpy refuses as an
\* index (IndexError), as it does an index out of range.
ShiftSelected(atoms, selection, vector) ==
    IF Len(selection) = 0 \/ ~SelValid(selection, atoms)
    THEN [atoms |-> atoms, out |-> "IndexError"]
    ELSE [atoms |-> SetPositions(atoms, [i \in 1..NAtoms(atoms) |->
                        IF i - 1 \in Range(selection)
                        THEN VAdd(atoms.atoms[i].pos, vector) ELSE atoms.atoms[i].pos]),
          out |-> "ok"]

\* int((idx + 1) * (len(segments) - 1) / self.steps)
EndIdx(idx, L, steps) == ((idx + 1) * (L - 1)) \div steps

\* The loop of Translate.run from iteration idx on.
RECURSIVE TranslateLoop(_, _, _, _, _, _)
TranslateLoop(v, atoms, selection, segments, steps, idx) ==
    IF idx >= steps THEN Ok(v, <<>>)
    ELSE LET end_idx == EndIdx(idx, Len(segments), steps)
             vector == VSub(segments[end_idx + 1], segments[1])
             r == ShiftSelected(Copy(atoms), selection, vector)
         IN  IF r.out # "ok" THEN Raise(v, r.out, <<>>)
             ELSE TranslateLoop(AppendFrame(v, r.atoms), atoms, selection, segments,
                                steps, idx + 1)

TranslateRun(v, p) ==
    LET v1 == Truncate(v)
    IN  IF p.steps > Len(Segments(v1)) THEN Raise(v1, "ValueError", <<>>)
        ELSE IF ~HasCurrent(v1) THEN Raise(v1, "IndexError", <<>>)
        ELSE TranslateLoop(v1, Atoms(v1), v1.selection, Segments(v1), p.steps, 0)

-----------------------------------------------------------------------------
(* Duplicate                                                               *)

\* The loop of Duplicate.run from position i (1-based) of the selection on.
RECURSIVE DuplicateLoop(_, _, _, _)
DuplicateLoop(atoms, selection, i, p) ==
    IF i > Len(selection) THEN [atoms |-> atoms, out |-> "ok"]
    ELSE LET atom_id == selection[i]
         IN  IF atom_id \notin AtomIds(atoms) THEN [atoms |-> atoms, out |-> "IndexError"]
             ELSE LET src == atoms.atoms[atom_id + 1]
                      atom == Atom(IF p.symbol # "X" THEN p.symbol ELSE src.sym,
                                   VAdd(src.pos, p.offset))
                      added == AddAtom(atoms, atom)
                  IN  IF ~added.colors \/ ~added.radii
                      THEN [atoms |-> added, out |-> "KeyError"]
                      ELSE DuplicateLoop([added EXCEPT !.colors = FALSE, !.radii = FALSE,
                                                       !.conn = FALSE],
                                         selection, i + 1, p)

DuplicateRun(v, p) ==
    IF ~HasCurrent(v) THEN Raise(v, "IndexError", <<>>)
    ELSE LET atoms == Atoms(v)
             v1 == Truncate(v)
             r == DuplicateLoop(atoms, v1.selection, 1, p)
         IN  IF r.out # "ok" THEN Raise(v1, r.out, <<>>)
             ELSE Ok([AppendFrame(v1, r.atoms) EXCEPT !.selection = <<>>], <<>>)

-----------------------------------------------------------------------------
(* ChangeType                                                              *)

\* `for atom_id in vis.selection: atoms[atom_id].symbol = self.symbol.name`
RECURSIVE RelabelLoop(_, _, _, _)
RelabelLoop(atoms, selection, i, symbol) ==
    IF i > Len(selection) THEN [atoms |-> atoms, out |-> "ok"]
    ELSE IF selection[i] \notin AtomIds(atoms) THEN [atoms |-> atoms, out |-> "IndexError"]
    ELSE RelabelLoop([atoms EXCEPT !.atoms[selection[i] + 1].sym = symbol],
                     selection, i + 1, symbol)

ChangeTypeRun(v, p) ==
    LET v1 == Truncate(v)
    IN  IF ~HasCurrent(v1) THEN Raise(v1, "IndexError", <<>>)
        ELSE LET r == RelabelLoop(Atoms(v1), v1.selection, 1, p.symbol)
             IN  IF r.out # "ok" THEN Raise(v1, r.out, <<>>)
                 ELSE IF ~r.atoms.colors \/ ~r.atoms.radii THEN Raise(v1, "KeyError", <<>>)
                 ELSE Ok([AppendFrame(v1, [r.atoms EXCEPT !.colors = FALSE,
                                                          !.radii = FALSE, !.conn = FALSE])
                            EXCEPT !.selection = <<>>], <<>>)

-----------------------------------------------------------------------------
(* AddLineParticles                                                        *)

\* `for point in vis.points: atoms += ase.Atom(self.symbol.name, position=point)`
RECURSIVE AddPoints(_, _, _)
AddPoints(atoms, points, symbol) ==
    IF Len(points) = 0 THEN atoms
    ELSE AddPoints(AddAtom(atoms, Atom(symbol, Head(points))), Tail(points), symbol)

\* `for _ in range(n): vis.append(atoms)`
RECURSIVE AppendTimes(_, _, _)
AppendTimes(v, atoms, n) ==
    IF n = 0 THEN v ELSE AppendTimes(AppendFrame(v, atoms), atoms, n - 1)

AddLineParticlesRun(v, p) ==
    LET v1 == Truncate(v)
    IN  IF ~HasCurrent(v1) THEN Raise(v1, "IndexError", <<>>)
        ELSE Ok(AppendTimes(v1, AddPoints(Atoms(v1), v1.points, p.symbol), p.steps), <<>>)

-----------------------------------------------------------------------------
(* Wrap                                                                    *)

\* delattr that leaves the attribute in place.
DelAttrConn_Keep(atoms) ==
    IF atoms.conn THEN [atoms |-> atoms, out |-> "ok"]
    ELSE [atoms |-> atoms, out |-> "AttributeError"]

\* delattr(atoms, "connectivity"): AttributeError when the attribute is absent.
DelAttrConn(atoms) ==
    IF atoms.conn THEN [atoms |-> [atoms EXCEPT !.conn = FALSE], out |-> "ok"]
    ELSE [atoms |-> atoms, out |-> "AttributeError"]

\* One frame of Wrap.run.
WrapFrame(atoms, p) ==
    LET wrapped == WrapAtoms(atoms)
    IN  IF p.recompute_bonds THEN DelAttrConn(wrapped)
        ELSE [atoms |-> wrapped, out |-> "ok"]

\* `for idx, atoms in enumerate(vis)` of Wrap.run from index idx on.
RECURSIVE WrapLoop(_, _, _)
WrapLoop(v, p, idx) ==
    IF idx >= Len(v.traj) THEN Ok(v, <<>>)
    ELSE LET r == WrapFrame(v.traj[idx + 1], p)
         IN  IF r.out # "ok" THEN Raise(v, r.out, <<>>)
             ELSE WrapLoop(SetItem(v, idx, r.atoms), p, idx + 1)

\* Wrap.run that takes the loop over the trajectory whatever `all` is.
WrapRun_All(v, p) == WrapLoop(v, p, 0)

WrapRun(v, p) ==
    IF p.all THEN WrapLoop(v, p, 0)
    ELSE IF ~HasCurrent(v) THEN Raise(v, "IndexError", <<>>)
    ELSE LET r == WrapFrame(Atoms(v), p)
         IN  IF r.out # "ok" THEN Raise(v, r.out, <<>>)
             ELSE Ok(SetItem(v, v.step, r.atoms), <<>>)

-----------------------------------------------------------------------------
(* Center                                                                  *)

\* One frame of Center.run without the move to the half diagonal.
CenterFrame_Origin(atoms, center, p) ==
    LET moved == Shift(atoms, VScale(0 - 1, center))
        wrapped == IF p.wrap THEN WrapAtoms(moved) ELSE moved
    IN  IF p.recompute_bonds THEN DelAttrConn(wrapped)
        ELSE [atoms |-> wrapped, out |-> "ok"]

\* One frame of Center.run once the center is known.
CenterFrame(atoms, center, p) ==
    LET moved == Shift(Shift(atoms, VScale(0 - 1, center)), HalfDiag(atoms))
        wrapped == IF p.wrap THEN WrapAtoms(moved) ELSE moved
    IN  IF p.recompute_bonds THEN DelAttrConn(wrapped)
        ELSE [atoms |-> wrapped, out |-> "ok"]

\* `for idx, atoms in enumerate(vis)` of Center.run from index idx on; center is
\* the one computed before the loop (unused when dynamic).
RECURSIVE CenterLoop(_, _, _, _, _)
CenterLoop(v, selection, center, p, idx) ==
    IF idx >= Len(v.traj) THEN Ok(v, <<>>)
    ELSE LET atoms == v.traj[idx + 1]
         IN  IF p.dynamic /\ ~SelValid(selection, atoms) THEN Raise(v, "IndexError", <<>>)
             ELSE LET c == IF p.dynamic THEN CenterOfMass(GetItem(atoms, selection))
                                        ELSE center
                      r == CenterFrame(atoms, c, p)
                  IN  IF r.out # "ok" THEN Raise(v, r.out, <<>>)
                      ELSE CenterLoop(SetItem(v, idx, r.atoms), selection, center, p, idx + 1)

\* The empty-selection branch raising instead of logging and returning.
CenterEmpty_Raise(v) == Raise(v, "ValueError", <<>>)

\* `vis.log("Please select at least one atom."); return`
CenterEmpty(v) == Ok(v, <<Msg("Please select at least one atom.", <<>>)>>)

CenterRun(v, p) ==
    LET selection == v.selection
        currentOk == HasCurrent(v) /\ SelValid(selection, Atoms(v))
    IN  IF Len(selection) < 1 THEN CenterEmpty(v)
        ELSE IF ~p.dynamic /\ ~currentOk THEN Raise(v, "IndexError", <<>>)
        ELSE IF p.all
             THEN CenterLoop(v, selection,
                             IF p.dynamic THEN Zero3
                             ELSE CenterOfMass(GetItem(Atoms(v), selection)), p, 0)
        ELSE IF ~currentOk THEN Raise(v, "IndexError", <<>>)
        ELSE LET atoms == Atoms(v)
                 r == CenterFrame(atoms, CenterOfMass(GetItem(atoms, selection)), p)
             IN  IF r.out # "ok" THEN Raise(v, r.out, <<>>)
                 ELSE Ok(SetItem(v, v.step, r.atoms), <<>>)

\* Every centre of mass the run computes is a lattice point, and so is the
\* half diagonal of every cell it uses.
CenterOnLattice(v, p) ==
    LET sel == v.selection
        exact(f) == SelValid(sel, f) => ComOnLattice(GetItem(f, sel))
        even(f) == \A k \in 1..3 : f.cell[k] % 2 = 0
    IN  Len(sel) >= 1 =>
          /\ HasCurrent(v) => exact(Atoms(v)) /\ even(Atoms(v))
          /\ p.all => \A i \in 1..Len(v.traj) :
                         even(v.traj[i]) /\ (p.dynamic => exact(v.traj[i]))

-----------------------------------------------------------------------------
(* Replicate                                                               *)

\* One frame of Replicate.run that keeps the cell repeat() has enlarged.
ReplicateFrame_Scaled(atoms, stored, p) == Repeat(atoms, p.rep)

\* One frame of Replicate.run; stored is the frame the session holds at that index.
ReplicateFrame(atoms, stored, p) ==
    LET rep == Repeat(atoms, p.rep)
    IN  IF p.keep_box THEN [rep EXCEPT !.cell = stored.cell] ELSE rep

RECURSIVE ReplicateLoop(_, _, _)
ReplicateLoop(v, p, idx) ==
    IF idx >= Len(v.traj) THEN v
    ELSE ReplicateLoop(SetItem(v, idx, ReplicateFrame(v.traj[idx + 1], v.traj[idx + 1], p)),
                       p, idx + 1)

ReplicateRun(v, p) ==
    IF p.all THEN Ok(ReplicateLoop(v, p, 0), <<>>)
    ELSE IF ~HasCurrent(v) THEN Raise(v, "IndexError", <<>>)
    ELSE Ok(SetItem(v, v.step, ReplicateFrame(Atoms(v), Atoms(v), p)), <<>>)

-----------------------------------------------------------------------------
(* NewCanvas, RemoveAtoms                                                  *)

DefaultCamera == [position |-> <<0, 0, 0 - 15>>, target |-> Zero3]

DefaultPlane ==
    [kind |-> "Plane", position |-> Zero3, rotation |-> Zero3, scale |-> <<1, 1, 1>>,
     width |-> 10, height |-> 10]

NewCanvasRun(v) ==
    LET v1 == DelFrom(v, v.step + 1)
        v2 == AppendFrame([v1 EXCEPT !.points = <<>>], EmptyAtoms)
        step == Len(v2.traj) - 1
    IN  Ok([v2 EXCEPT !.selection = <<>>,
                      !.step = step,
                      !.bookmarks = Merge(v2.bookmarks, step, Label("New Scene", "")),
                      !.camera = DefaultCamera,
                      !.geometries = <<DefaultPlane>>], <<>>)

RemoveAtomsRun(v) ==
    IF ~HasCurrent(v) THEN Raise(v, "IndexError", <<>>)
    ELSE Ok(DelItem(v, v.step), <<>>)

-----------------------------------------------------------------------------
(* Model (DiffusionModelling) and RunType                                  *)

client_address == "http://127.0.0.1:5000/run"

\* run_type.discriminator of the configured workflow.
Workflow == "Generate"

\* RunType.run: the body is `pass`; the call is recorded with its arguments.
RunTypeRun(address, calculators, timeout) ==
    [client_address |-> address, calculators |-> calculators, timeout |-> timeout]

\* kwargs is the keyword dictionary of the call (a function on the keys given).
ModelRun(v, kwargs) ==
    LET lg == <<Msg("Sending request to inference server.", <<>>)>>
        v1 == Truncate(v)
    IN  IF "calculators" \notin DOMAIN kwargs THEN Raise(v1, "KeyError", lg)
        ELSE IF kwargs["calculators"] = "None" THEN Raise(v1, "ValueError", lg)
        ELSE LET v2 == [v1 EXCEPT !.bookmarks =
                            Merge(v1.bookmarks, v1.step, Label("Running", Workflow))]
                 timeout == IF "timeout" \in DOMAIN kwargs THEN kwargs["timeout"] ELSE 60
             IN  [Ok(v2, lg) EXCEPT !.calls =
                     <<RunTypeRun(client_address, kwargs["calculators"], timeout)>>]

-----------------------------------------------------------------------------
(* Sessions the runs start from, and the settings of the modifiers         *)

P0 == <<0, 0, 0>>

P1 == <<1, 0, 0>>

P2 == <<3, 0, 0>>

Cell == <<4, 4, 4>>

\* Three atoms with colors, radii and a bond graph.
FrameA ==
    [atoms |-> <<Atom("H", <<0, 0, 1>>), Atom("O", <<0, 0, 5>>), Atom("H", <<0, 0, 2>>)>>,
     cell |-> Cell, pbc |-> TRUE, colors |-> TRUE, radii |-> TRUE, conn |-> TRUE]

\* One atom, no bond graph yet.
FrameB ==
    [atoms |-> <<Atom("O", <<0, 0, 6>>)>>,
     cell |-> Cell, pbc |-> TRUE, colors |-> TRUE, radii |-> TRUE, conn |-> FALSE]

\* The sessions a behaviour starts from: <<trajectory, step, selection, points>>.
InitSessions ==
    {<<(<<FrameA, FrameB>>), 0, (<<2, 0>>), (<<P0, P1>>)>>,
     <<(<<FrameA, FrameB>>), 0, (<<0, 1, 2>>), (<<P0, P1, P2>>)>>,
     <<(<<FrameA, FrameB>>), 0, (<<>>), (<<P0, P1>>)>>,
     <<(<<FrameA, FrameB>>), 1, (<<0>>), (<<P0, P1>>)>>,
     <<(<<FrameA, FrameB>>), 1, (<<>>), (<<>>)>>,
     <<(<<FrameB, FrameA>>), 0, (<<0>>), (<<P0, P1, P2>>)>>,
     <<(<<FrameB, FrameA>>), 1, (<<2, 0>>), (<<P0, P1, P2>>)>>,
     <<(<<FrameB, FrameA>>), 1, (<<0>>), (<<>>)>>,
     <<(<<FrameA, FrameA>>), 0, (<<1>>), (<<P0, P1>>)>>,
     <<(<<FrameA>>), 0, (<<1>>), (<<P0, P1>>)>>,
     <<(<<FrameA>>), 0, (<<0, 1, 2>>), (<<>>)>>,
     <<(<<FrameA>>), 0, (<<>>), (<<P0, P1, P2>>)>>,
     <<(<<FrameB>>), 0, (<<0>>), (<<P0, P1>>)>>,
     <<(<<FrameB>>), 0, (<<>>), (<<>>)>>}

InitCamera == [position |-> <<0, 0, 0 - 20>>, target |-> <<0, 0, 1>>]

InitBookmarks == (0 :> Label("Start", ""))

RotateParams ==
    {[angle |-> 90, direction |-> "left", steps |-> 1],
     [angle |-> 180, direction |-> "right", steps |-> 2]}

TranslateParams == {[steps |-> n] : n \in {1, 3}}

DuplicateParams == {[symbol |-> s, offset |-> <<0, 0, 1>>] : s \in {"X", "O"}}

ChangeTypeParams == {[symbol |-> s] : s \in {"O"}}

AddLineParticlesParams == {[symbol |-> "H", steps |-> n] : n \in {2}}

WrapParams == [recompute_bonds : BOOLEAN, all : BOOLEAN]

CenterParams == [recompute_bonds : BOOLEAN, dynamic : BOOLEAN, wrap : BOOLEAN, all : BOOLEAN]

ReplicateParams == [rep : {<<2, 1, 1>>}, keep_box : BOOLEAN, all : BOOLEAN]

ModelKwargs ==
    {<<>>,
     [calculators |-> "None"],
     [calculators |-> "registry"],
     [calculators |-> "registry", timeout |-> 30]}

NoArg == [none |-> TRUE]

\* The service before its first call, holding structure f.
Idle(f) ==
    [obj |-> f, given |-> f, op |-> "none", particles |-> <<>>, bonds |-> <<>>,
     prev |-> <<>>, again |-> FALSE, calls |-> 0]

\* Structures handed to get_bonds: none, one, two or three atoms on a line,
\* periodic or not.
BondStructures ==
    {[atoms |-> a, cell |-> Cell, pbc |-> b, colors |-> TRUE, radii |-> TRUE, conn |-> FALSE] :
        a \in {<<>>,
               <<Atom("H", <<0, 0, 0>>)>>,
               <<Atom("H", <<0, 0, 0>>), Atom("H", <<0, 0, 1>>)>>,
               <<Atom("H", <<0, 0, 0>>), Atom("H", <<0, 0, 3>>)>>,
               <<Atom("O", <<0, 0, 0>>), Atom("H", <<0, 0, 1>>), Atom("H", <<0, 0, 2>>)>>,
               FrameA.atoms},
        b \in BOOLEAN}

SessionInit ==
    /\ \E s \in InitSessions :
          vis = [traj |-> s[1], org |-> [i \in 1..Len(s[1]) |-> "past"], step |-> s[2],
                 selection |-> s[3], points |-> s[4], camera |-> InitCamera,
                 bookmarks |-> InitBookmarks, geometries |-> <<>>]
    /\ pre = Sess(vis)
    /\ last = [op |-> "none", arg |-> NoArg, out |-> "ok", calls |-> <<>>]
    /\ log = <<>>
    /\ runs = 0

Init == SessionInit /\ svc = Idle(EmptyAtoms)

\* One completed (or failed) call of method.run(vis, ...).
Call(op, arg, r) ==
    /\ runs < MaxRuns
    /\ vis' = r.v
    /\ pre' = Sess(vis)
    /\ last' = [op |-> op, arg |-> arg, out |-> r.out, calls |-> r.calls]
    /\ log' = r.log
    /\ runs' = runs + 1
    /\ UNCHANGED svc

Connect == ConnectOnLattice(vis) /\ Call("Connect", NoArg, ConnectRun(Begin(vis)))

Rotate ==
    \E p \in RotateParams :
        /\ Len(vis.points) = 2 =>
              LET d == VSub(vis.points[2], vis.points[1]) IN d = Zero3 \/ AxisAligned(d)
        /\ Call("Rotate", p, RotateRun(Begin(vis), p))

Delete == Call("Delete", NoArg, DeleteRun(Begin(vis)))

Translate == \E p \in TranslateParams : Call("Translate", p, TranslateRun(Begin(vis), p))

Duplicate == \E p \in DuplicateParams : Call("Duplicate", p, DuplicateRun(Begin(vis), p))

ChangeType == \E p \in ChangeTypeParams : Call("ChangeType", p, ChangeTypeRun(Begin(vis), p))

AddLineParticles ==
    \E p \in AddLineParticlesParams :
        Call("AddLineParticles", p, AddLineParticlesRun(Begin(vis), p))

Wrap == \E p \in WrapParams : Call("Wrap", p, WrapRun(Begin(vis), p))

Center ==
    \E p \in CenterParams :
        CenterOnLattice(vis, p) /\ Call("Center", p, CenterRun(Begin(vis), p))

Replicate == \E p \in ReplicateParams : Call("Replicate", p, ReplicateRun(Begin(vis), p))

NewCanvas == Call("NewCanvas", NoArg, NewCanvasRun(Begin(vis)))

RemoveAtoms == Call("RemoveAtoms", NoArg, RemoveAtomsRun(Begin(vis)))

Model == \E kw \in ModelKwargs : Call("Model", kw, ModelRun(Begin(vis), kw))

Next ==
    \/ Connect
    \/ Rotate
    \/ Delete
    \/ Translate
    \/ Duplicate
    \/ ChangeType
    \/ AddLineParticles
    \/ Wrap
    \/ Center
    \/ Replicate
    \/ NewCanvas
    \/ RemoveAtoms
    \/ Model

Spec == Init /\ [][Next]_vars

-----------------------------------------------------------------------------
(* The bond and frame service, called on its own                           *)

BondsInit == SessionInit /\ \E f \in BondStructures : svc = Idle(f)

\* get_bonds(atoms) on the structure the caller holds; a second call is on the
\* same structure.
GetBonds ==
    /\ svc.calls < MaxCalls
    /\ LET r == get_bonds(svc.obj)
       IN  svc' = [obj |-> r.atoms, given |-> svc.obj, op |-> "get_bonds",
                   particles |-> <<>>, bonds |-> r.bonds, prev |-> svc.bonds,
                   again |-> (svc.op # "none"), calls |-> svc.calls + 1]
    /\ UNCHANGED <<vis, pre, last, log, runs>>

\* get_frame(step) for a step of the trajectory; the structure held is the one
\* fetched, and a second call on the structure held is get_bonds on it.
GetFrame ==
    \E step \in 0..(Len(vis.traj) - 1) :
        /\ svc.calls < MaxCalls
        /\ LET r == get_frame(vis, step)
           IN  svc' = [obj |-> r.atoms, given |-> get_atoms(vis, step), op |-> "get_frame",
                       particles |-> r.particles, bonds |-> r.bonds, prev |-> svc.bonds,
                       again |-> FALSE, calls |-> svc.calls + 1]
        /\ UNCHANGED <<vis, pre, last, log, runs>>

BondsNext == GetBonds \/ GetFrame

BondsSpec == BondsInit /\ [][BondsNext]_vars

-----------------------------------------------------------------------------
(* Properties                                                              *)

\* The frame the session held at the current step when the run was called.
PreAtoms == pre.traj[pre.step + 1]

\* The run was called with frames beyond the current step.
HadFuture == Len(pre.traj) > pre.step + 1

\* No frame that lay beyond the step at the call is still in the trajectory.
NoFormerFuture == \A i \in 1..Len(vis.org) : vis.org[i] # "future"

EditModifiers ==
    {"Connect", "Rotate", "Delete", "Translate", "Duplicate", "ChangeType",
     "AddLineParticles", "Wrap", "Center", "Replicate", "NewCanvas", "RemoveAtoms"}

\* The modifiers that append their result to the trajectory.
AppendingModifiers ==
    {"Rotate", "Delete", "Translate", "Duplicate", "ChangeType", "AddLineParticles",
     "NewCanvas"}

\* C1 as claimed: after a run of any edit modifier that was called with frames
\* beyond the current step has returned, none of those frames is left.
C1_AllModifiersDropFuture ==
    (last.op \in EditModifiers /\ last.out = "ok" /\ HadFuture) => NoFormerFuture

\* C1, amended: a run of a modifier that appends frames (Rotate, Delete, Translate,
\* Duplicate, ChangeType, AddLineParticles, NewCanvas) leaves none of the frames
\* that lay beyond the current step at the call, whether it returns or raises.
C1_ForwardBranch == last.op \in AppendingModifiers => NoFormerFuture

C1_Witness ==
    /\ last.op \in AppendingModifiers
    /\ last.out = "ok"
    /\ HadFuture
    /\ Len(vis.traj) > pre.step + 1

\* C2 as claimed: after every completed run the step names a frame.
C2_StepValid == last.out = "ok" => HasCurrent(vis)

\* C3 as claimed: a completed Delete leaves exactly one frame after the old step,
\* the step on it, that frame empty when every atom was selected, and no selection.
C3_DeleteAppendsOne ==
    (last.op = "Delete" /\ last.out = "ok") =>
        /\ Len(vis.traj) = pre.step + 2
        /\ vis.step = pre.step + 1
        /\ vis.step = Len(vis.traj) - 1
        /\ vis.selection = <<>>
        /\ Len(pre.selection) = NAtoms(PreAtoms) => vis.traj[vis.step + 1] = EmptyAtoms

\* A sequence without repetition.
Distinct(s) == \A i, j \in 1..Len(s) : s[i] = s[j] => i = j

\* The atoms of f that ids does not name, in their order in f.
Unselected(f, ids) ==
    LET keep == {i \in 1..NAtoms(f) : i - 1 \notin Range(ids)}
        nth(k) == CHOOSE i \in keep : Cardinality({j \in keep : j < i}) = k - 1
    IN  [k \in 1..Cardinality(keep) |-> f.atoms[nth(k)]]

\* Delete was called on a frame with a selection of distinct indices of that frame
\* that leaves at least one atom out.
ProperSelection ==
    /\ HasCurrent(pre)
    /\ Distinct(pre.selection)
    /\ SelValid(pre.selection, PreAtoms)
    /\ Len(pre.selection) < NAtoms(PreAtoms)

\* C4: Delete with a proper subset of the atom indices selected (in any order)
\* completes (no removal indexes out of range) and the frame it writes holds exactly
\* the unselected atoms in their original order, original_count - len(selection) of
\* them, and has no connectivity.
C4_DeleteProperSubset ==
    (last.op = "Delete" /\ ProperSelection) =>
        /\ last.out = "ok"
        /\ LET written == vis.traj[Len(vis.traj)]
           IN  /\ written.atoms = Unselected(PreAtoms, pre.selection)
               /\ NAtoms(written) = NAtoms(PreAtoms) - Len(pre.selection)
               /\ ~written.conn
               /\ written = vis.traj[vis.step + 1]

C4_Witness ==
    /\ last.op = "Delete"
    /\ ProperSelection
    /\ pre.selection = <<2, 0>>
    /\ PreAtoms.conn
    /\ NAtoms(vis.traj[vis.step + 1]) = 1

InPlaceModifiers == {"Wrap", "Center", "Replicate"}

\* The frame the written frame at position i was derived from: the frame of the
\* same index for the modifiers that replace frames, the current frame otherwise.
SourceOf(i) == IF last.op \in InPlaceModifiers THEN pre.traj[i] ELSE PreAtoms

\* Position i holds a frame the run wrote whose atoms (count, species or positions)
\* differ from those of the frame it was derived from.
WroteChanged(i) == vis.org[i] = "new" /\ vis.traj[i].atoms # SourceOf(i).atoms

BondCacheModifiers ==
    {"Rotate", "Translate", "AddLineParticles", "Replicate", "Duplicate", "ChangeType",
     "Delete", "Wrap", "Center"}

\* The runs that drop the bond graph of what they write.
DropsBonds ==
    \/ last.op \in {"Translate", "Replicate", "Duplicate", "ChangeType", "Delete"}
    \/ last.op \in {"Wrap", "Center"} /\ last.arg.recompute_bonds

C6_DuplicateAnyCount ==
    (/\ last.op = "Duplicate"
     /\ HasCurrent(pre)
     /\ SelValid(pre.selection, PreAtoms)
     /\ Len(pre.selection) >= 1) =>
        /\ last.out = "ok"
        /\ Len(vis.traj) = pre.step + 2
        /\ vis.selection = <<>>
        /\ LET w == vis.traj[Len(vis.traj)]
               n == NAtoms(PreAtoms)
           IN  /\ NAtoms(w) = n + Len(pre.selection)
               /\ ~w.colors /\ ~w.radii /\ ~w.conn
               /\ \A j \in 1..Len(pre.selection) :
                     w.atoms[n + j].sym =
                        IF last.arg.symbol = "X" THEN PreAtoms.atoms[pre.selection[j] + 1].sym
                        ELSE last.arg.symbol

\* The frame of n atoms of f with the selected ones turned by angle a about the
\* axis through points[1] and points[2].
Turned(f, ids, a, points) ==
    SetPositions(f, [i \in 1..NAtoms(f) |->
        IF i - 1 \in Range(ids)
        THEN RotatePos(f.atoms[i].pos, a, Unit(VSub(points[2], points[1])), points[1])
        ELSE f.atoms[i].pos])

\* C7 as claimed: Rotate with exactly 2 points and steps = N appends exactly N
\* frames to the truncated trajectory, frame j turned by j increments of angle/N
\* (negated for direction right), the last by the whole angle; with another
\* number of points it fails with InvalidInput and appends no frame.
C7_RotateFrames ==
    last.op = "Rotate" =>
        LET N == last.arg.steps
            signed == IF last.arg.direction = "left" THEN last.arg.angle
                      ELSE 0 - last.arg.angle
        IN  IF Len(pre.points) = 2
            THEN /\ last.out = "ok"
                 /\ Len(vis.traj) = pre.step + 1 + N
                 /\ \A j \in 1..N :
                       vis.traj[pre.step + 1 + j] =
                          Turned(PreAtoms, pre.selection, j * (signed \div N), pre.points)
                 /\ vis.traj[Len(vis.traj)] =
                       Turned(PreAtoms, pre.selection, signed, pre.points)
            ELSE /\ last.out = "ValueError"
                 /\ \A i \in 1..Len(vis.org) : vis.org[i] # "new"

\* The frame f with the selected atoms displaced by d, as a copy.
Displaced(f, ids, d) ==
    SetPositions(Copy(f), [i \in 1..NAtoms(f) |->
        IF i - 1 \in Range(ids) THEN VAdd(f.atoms[i].pos, d) ELSE f.atoms[i].pos])

\* C8 as claimed: Translate with steps = S over L segment points fails with
\* InvalidInput when S > L; when 1 <= S <= L it appends exactly S frames, frame idx
\* displacing the selected atoms by segments[e] - segments[0] with
\* e = floor((idx+1)*(L-1)/S) in 0..L-1, non-decreasing, e = L-1 for the last frame,
\* and leaving the unselected atoms where they were.
C8_TranslateFrames ==
    last.op = "Translate" =>
        LET S == last.arg.steps
            L == Len(pre.points)
            e(idx) == ((idx + 1) * (L - 1)) \div S
        IN  IF S > L THEN last.out = "ValueError"
            ELSE /\ last.out = "ok"
                 /\ Len(vis.traj) = pre.step + 1 + S
                 /\ e(S - 1) = L - 1
                 /\ \A idx \in 0..(S - 1) :
                       /\ e(idx) \in 0..(L - 1)
                       /\ idx > 0 => e(idx - 1) <= e(idx)
                       /\ vis.traj[pre.step + 2 + idx] =
                             Displaced(PreAtoms, pre.selection,
                                       VSub(pre.points[e(idx) + 1], pre.points[1]))

\* Positions (1-based) of the frames a run of Wrap or Center is to process.
Processed == IF last.arg.all THEN 1..Len(pre.traj) ELSE {pre.step + 1}

\* C9 as claimed: Wrap, and Center with a non-empty selection, run with
\* recompute_bonds = true complete whether or not a processed frame had
\* connectivity, and every processed frame has been written back without it.
C9_RecomputeCompletes ==
    (/\ last.op \in {"Wrap", "Center"}
     /\ last.arg.recompute_bonds
     /\ last.op = "Center" => Len(pre.selection) >= 1) =>
        /\ last.out = "ok"
        /\ \A i \in Processed :
              i \in 1..Len(vis.traj) /\ vis.org[i] = "new" /\ ~vis.traj[i].conn

\* C10: Center run with an empty selection, whatever recompute_bonds, dynamic, wrap
\* and all are, returns without raising, logs exactly one message and leaves the
\* trajectory, step, selection, points, camera, bookmarks and geometries as they were.
C10_CenterEmptySelection ==
    (last.op = "Center" /\ Len(pre.selection) = 0) =>
        /\ last.out = "ok"
        /\ Len(log) = 1
        /\ Sess(vis) = pre

C10_Witness ==
    /\ last.op = "Center"
    /\ Len(pre.selection) = 0
    /\ last.arg.all /\ last.arg.recompute_bonds /\ last.arg.wrap /\ ~last.arg.dynamic
    /\ Len(pre.traj) = 2
    /\ \E i \in 1..Len(pre.traj) : ~pre.traj[i].conn
    /\ Len(log) = 1

\* The centre of mass of the atoms ids of structure f is exactly the point c:
\* sum(m_i * p_i) = sum(m_i) * c.
ComIs(f, ids, c) ==
    LET g == GetItem(f, ids) IN MassMoment(g) = VScale(TotalMass(g), c)

\* A completed run of Center with dynamic = false, all = true and wrap off on a
\* non-empty selection.
StaticAllCenter ==
    /\ last.op = "Center"
    /\ last.out = "ok"
    /\ ~last.arg.dynamic /\ last.arg.all /\ ~last.arg.wrap
    /\ Len(pre.selection) >= 1

\* C11 as claimed: after Center with dynamic = false, all = true and wrap off, in
\* every frame of the trajectory (that has the selected atoms) the centre of mass
\* of the selected atoms is half the cell diagonal of that frame.
C11_StaticAllCentersEvery ==
    StaticAllCenter =>
        \A i \in 1..Len(vis.traj) :
            SelValid(pre.selection, vis.traj[i]) =>
                ComIs(vis.traj[i], pre.selection, HalfDiag(vis.traj[i]))

\* C11, amended: Center with dynamic = false, all = true and wrap off moves every
\* frame by one and the same centre, the centre of mass the selected atoms have in
\* the current frame: each position becomes position - centre + half the cell
\* diagonal of its frame, elements and cells are kept, and in the current frame
\* the centre of mass of the selected atoms ends at half the cell diagonal.
C11_StaticAllShift ==
    StaticAllCenter =>
        LET center == CenterOfMass(GetItem(PreAtoms, pre.selection))
        IN  /\ Len(vis.traj) = Len(pre.traj)
            /\ \A i \in 1..Len(vis.traj) :
                  LET old == pre.traj[i]
                      new == vis.traj[i]
                  IN  /\ new.cell = old.cell
                      /\ NAtoms(new) = NAtoms(old)
                      /\ \A k \in 1..NAtoms(old) :
                            /\ new.atoms[k].sym = old.atoms[k].sym
                            /\ new.atoms[k].pos =
                                  VAdd(VSub(old.atoms[k].pos, center), HalfDiag(old))
            /\ ComIs(vis.traj[vis.step + 1], pre.selection,
                     HalfDiag(vis.traj[vis.step + 1]))

\* A static run over two frames that leaves the selected atom of the other frame
\* away from the half diagonal.
C11_Witness ==
    /\ StaticAllCenter
    /\ Len(vis.traj) = 2
    /\ \E i \in 1..Len(vis.traj) :
          /\ i # vis.step + 1
          /\ SelValid(pre.selection, vis.traj[i])
          /\ ~ComIs(vis.traj[i], pre.selection, HalfDiag(vis.traj[i]))

\* Smaller of two numbers.
Min(a, b) == IF a < b THEN a ELSE b

\* C12: NewCanvas, from any session state, returns with the empty structure as the
\* last frame, step = len(trajectory) - 1, the frames at indices up to the old step
\* unchanged, points and selection empty, bookmarks equal to the previous bookmarks
\* with the new step mapped to "New Scene" and every other entry kept, the camera
\* at position [0,0,-15] / target [0,0,0], and geometries exactly one default plane.
C12_NewCanvas ==
    last.op = "NewCanvas" =>
        /\ last.out = "ok"
        /\ Len(vis.traj) >= 1
        /\ vis.traj[Len(vis.traj)] = EmptyAtoms
        /\ vis.step = Len(vis.traj) - 1
        /\ \A i \in 1..Min(pre.step + 1, Len(pre.traj)) :
              i < Len(vis.traj) /\ vis.traj[i] = pre.traj[i]
        /\ vis.points = <<>>
        /\ vis.selection = <<>>
        /\ DOMAIN vis.bookmarks = (DOMAIN pre.bookmarks) \cup {vis.step}
        /\ vis.bookmarks[vis.step] = Label("New Scene", "")
        /\ \A k \in (DOMAIN pre.bookmarks) \ {vis.step} :
              vis.bookmarks[k] = pre.bookmarks[k]
        /\ vis.camera = [position |-> <<0, 0, 0 - 15>>, target |-> <<0, 0, 0>>]
        /\ Len(vis.geometries) = 1
        /\ vis.geometries[1] = DefaultPlane

\* NewCanvas on a session with frames beyond the step, a selection, points and a
\* bookmark on another frame.
C12_Witness ==
    /\ last.op = "NewCanvas"
    /\ HadFuture
    /\ Len(pre.selection) > 0
    /\ Len(pre.points) > 0
    /\ pre.camera # vis.camera
    /\ \E k \in DOMAIN pre.bookmarks : k # vis.step /\ vis.bookmarks[k] = pre.bookmarks[k]
    /\ vis.step = pre.step + 1

\* The call gave a calculator registry: the calculators argument is present and
\* is not None.
HasRegistry == "calculators" \in DOMAIN last.arg /\ last.arg["calculators"] # "None"

\* C13 as claimed: Model.run without a calculator registry (the calculators argument
\* absent or None) fails with InvalidInput, adds no bookmark and does not call
\* RunType.run; with a registry it merges {step: "Running <workflow>"} into the
\* bookmarks and calls RunType.run exactly once with the service address, the
\* registry and the timeout, which is 60 when none was given.
C13_ModelRegistry ==
    last.op = "Model" =>
        IF ~HasRegistry
        THEN /\ last.out = "ValueError"
             /\ vis.bookmarks = pre.bookmarks
             /\ last.calls = <<>>
        ELSE /\ last.out = "ok"
             /\ vis.bookmarks = Merge(pre.bookmarks, pre.step, Label("Running", Workflow))
             /\ last.calls =
                   <<[client_address |-> client_address,
                      calculators |-> last.arg["calculators"],
                      timeout |-> IF "timeout" \in DOMAIN last.arg
                                  THEN last.arg["timeout"] ELSE 60]>>

\* Positions (1-based) of the frames a run with an `all` option is to process,
\* among the frames the trajectory held at the call.
ProcessedFrames ==
    (IF last.arg.all THEN 1..Len(pre.traj) ELSE {pre.step + 1}) \cap (1..Len(pre.traj))

\* C14: Replicate by (x, y, z) replaces each processed frame (the current one, or
\* every frame when all = true) with a frame of exactly x*y*z times its atom count;
\* with keep_box = true the cell of each resulting frame is the cell that frame had
\* before the run, not the enlarged one.
C14_Replicate ==
    last.op = "Replicate" =>
        LET rep == last.arg.rep
        IN  \A i \in ProcessedFrames :
              /\ i \in 1..Len(vis.traj)
              /\ vis.org[i] = "new"
              /\ NAtoms(vis.traj[i]) = rep[1] * rep[2] * rep[3] * NAtoms(pre.traj[i])
              /\ last.arg.keep_box => vis.traj[i].cell = pre.traj[i].cell

\* Replicate over a whole trajectory of two frames with keep_box, where the cell
\* repeat() produces would have differed from the one kept.
C14_Witness ==
    /\ last.op = "Replicate"
    /\ last.out = "ok"
    /\ last.arg.all /\ last.arg.keep_box
    /\ Len(pre.traj) = 2
    /\ \A i \in 1..2 :
          /\ NAtoms(pre.traj[i]) >= 1
          /\ NAtoms(vis.traj[i]) > NAtoms(pre.traj[i])
          /\ VMul(last.arg.rep, pre.traj[i].cell) # pre.traj[i].cell

\* C15 as claimed: get_bonds and get_frame leave the structure they are given with
\* the positions, species, cell and periodicity flag it had before the call, and a
\* second call on the same structure returns the same bond list as the first.
C15_BondServicePure ==
    svc.op \in {"get_bonds", "get_frame"} =>
        /\ svc.obj.atoms = svc.given.atoms
        /\ svc.obj.cell = svc.given.cell
        /\ svc.obj.pbc = svc.given.pbc
        /\ svc.again => svc.bonds = svc.prev

\* C16 as claimed: ChangeType appends exactly one frame after truncating the frames
\* beyond the step; in it every selected atom has the element symbol, every
\* unselected atom keeps its element, all positions are unchanged, and the colors
\* and radii arrays and the connectivity attribute are absent; afterwards the
\* selection is empty and step is unchanged.
C16_ChangeType ==
    last.op = "ChangeType" =>
        /\ last.out = "ok"
        /\ HasCurrent(pre)
        /\ Len(vis.traj) = pre.step + 2
        /\ \A i \in 1..(pre.step + 1) : vis.traj[i] = pre.traj[i]
        /\ LET new == vis.traj[Len(vis.traj)]
           IN  /\ NAtoms(new) = NAtoms(PreAtoms)
               /\ \A k \in 1..NAtoms(new) :
                     /\ new.atoms[k].pos = PreAtoms.atoms[k].pos
                     /\ new.atoms[k].sym =
                           IF k - 1 \in Range(pre.selection) THEN last.arg.symbol
                           ELSE PreAtoms.atoms[k].sym
               /\ ~new.colors /\ ~new.radii /\ ~new.conn
        /\ vis.selection = <<>>
        /\ vis.step = pre.step

\* C17 as claimed: after a completed modifier run every index of the selection is
\* an atom index of the frame at the current step.
C17_SelectionValid ==
    last.out = "ok" =>
        \A i \in 1..Len(vis.selection) :
            HasCurrent(vis) /\ vis.selection[i] \in AtomIds(Atoms(vis))

\* C18 as claimed: a run of Rotate, Translate or Model that fails with InvalidInput
\* leaves the trajectory (the frames beyond the step included), step, selection,
\* points and bookmarks as they were before the call.
C18_InvalidInputKeepsSession ==
    (last.op \in {"Rotate", "Translate", "Model"} /\ last.out = "ValueError") =>
        /\ vis.traj = pre.traj
        /\ vis.step = pre.step
        /\ vis.selection = pre.selection
        /\ vis.points = pre.points
        /\ vis.bookmarks = pre.bookmarks

\* C19: Wrap, Center and Replicate edit frames in place: a completed run leaves the
\* trajectory length, step, selection, points, camera, bookmarks and geometries
\* unchanged, and with all = false every frame other than the one at the current
\* step is unchanged.
C19_InPlace ==
    (last.op \in {"Wrap", "Center", "Replicate"} /\ last.out = "ok") =>
        /\ Len(vis.traj) = Len(pre.traj)
        /\ vis.step = pre.step
        /\ vis.selection = pre.selection
        /\ vis.points = pre.points
        /\ vis.camera = pre.camera
        /\ vis.bookmarks = pre.bookmarks
        /\ vis.geometries = pre.geometries
        /\ ~last.arg.all =>
              \A i \in 1..Len(pre.traj) : i # pre.step + 1 => vis.traj[i] = pre.traj[i]

\* A completed run with all = false on a two-frame trajectory that changed the
\* frame at the step, where the same modifier would have changed the other frame.
C19_Witness ==
    /\ last.op \in {"Wrap", "Center", "Replicate"}
    /\ last.out = "ok"
    /\ ~last.arg.all
    /\ Len(pre.traj) = 2
    /\ Len(pre.selection) >= 1
    /\ vis.traj[pre.step + 1] # pre.traj[pre.step + 1]
    /\ \E i \in 1..2 : i # pre.step + 1 /\ NAtoms(pre.traj[i]) >= 1

=============================================================================
